---- MODULE Spec2Model ----
(***************************************************************************)
(* A model of the two pieces of logic of "Your Ultimate Health Partner":   *)
(*   - the generation orchestrator of App (handleFormSubmit and the        *)
(*     handlers around it) together with the four service calls of         *)
(*     geminiService it races and joins, and                               *)
(*   - the audio playback session of ReportDashboard (handlePlayAudio,     *)
(*     playBuffer, the auto-stop timer, the animation loop, teardown).     *)
(*                                                                         *)
(* Conventions.  A nullable value is a sequence of length at most one:     *)
(* Null is <<>> and Some(x) is <<x>>.  A text is a sequence of one-letter  *)
(* strings.  An Error's message is Null (no message) or Some(S), S the set *)
(* of the needles of handleFormSubmit's catch block that the message       *)
(* contains, so that message.includes(n) is  n \in S.                      *)
(* React state updates of one handler (or of one promise continuation) are *)
(* applied together with it: one action per handler or continuation.       *)
(***************************************************************************)
EXTENDS Integers, Sequences, FiniteSets, TLC

Null == <<>>
Some(x) == <<x>>
Val(o) == o[1]

\* ------------------------------------------------------------------ bounds
\* Calls of handleFormSubmit in one run of the application.
MaxSubs == 2

\* The playback session: the clock stops at MaxClock, at most MaxSources
\* buffer sources are created, at most MaxConts calls of handlePlayAudio are
\* suspended at a time, and the narration lasts AudioUnits units of 100 ms.
MaxClock == 7
MaxSources == 3
MaxConts == 2
AudioUnits == 3

\* ------------------------------------------------------------ constants.ts
INITIAL_USER_PROFILE == [age |-> "", tag |-> "initial"]

\* Profiles that passed the form's validation (age is required there).
Profiles == {[age |-> "34", tag |-> "p1"], [age |-> "51", tag |-> "p2"]}

\* --------------------------------------------------------- geminiService
\* generateAudioSummary cuts the text it narrates to this many characters.
MaxAudioChars == 600

\* The two fixed strings of generateFastSummary, abbreviated:
\* "Your health profile has been analyzed."  and
\* "Your comprehensive health report is ready."
DefaultSummary == <<"a", "n", "a">>
FallbackSummary == <<"r", "d", "y">>

\* What the model may answer to the fast-summary prompt: a text (possibly
\* empty, possibly with markdown characters), or the call throws.
SummaryResponses ==
    { [kind |-> "text", text |-> <<>>],
      [kind |-> "text", text |-> <<"*", "s">>],
      [kind |-> "error", text |-> <<>>] }

\* Mutant of generateFastSummary: the catch returns the other fixed string.
generateFastSummary_WrongFallback(resp) ==
    IF resp.kind = "error" \/ resp.text = <<>> THEN DefaultSummary
    ELSE resp.text

\* generateFastSummary: response.text || default; the catch returns the
\* fallback string, so the promise never rejects.
generateFastSummary(resp) ==
    IF resp.kind = "error" THEN FallbackSummary
    ELSE IF resp.text = <<>> THEN DefaultSummary
    ELSE resp.text

RECURSIVE StripMarkdown(_)
\* text.replace(/[*#_]/g, '')
StripMarkdown(t) ==
    IF t = <<>> THEN <<>>
    ELSE IF Head(t) \in {"*", "#", "_"} THEN StripMarkdown(Tail(t))
    ELSE <<Head(t)>> \o StripMarkdown(Tail(t))

\* The text generateAudioSummary sends to the speech model.
SafeText(text) ==
    LET cleanText == StripMarkdown(text)
    IN  IF Len(cleanText) > MaxAudioChars
        THEN SubSeq(cleanText, 1, MaxAudioChars) \o <<".">>
        ELSE cleanText

\* The needles handleFormSubmit's catch looks for in err.message.
Needles == {"429", "Resource has been exhausted", "404", "Not Found",
            "API_KEY", "403", "Safety", "blocked", "parse"}

\* Mutant of ParseErrorMessage: new Error("Invalid AI response"), a message
\* without any of the needles.
ParseErrorMessage_NoNeedle == Some({})

\* new Error("Failed to parse AI response")
ParseErrorMessage == Some({"parse"})

\* What the model may answer to the full-report prompt: text that parses to
\* the report object, text that does not parse after cleaning, or the call
\* throws an error (with a message, or a thrown value without one).
ReportResponses ==
    { [kind |-> "text", parses |-> TRUE, message |-> Null],
      [kind |-> "text", parses |-> FALSE, message |-> Null],
      [kind |-> "error", parses |-> FALSE, message |-> Some({"429"})],
      [kind |-> "error", parses |-> FALSE, message |-> Null] }

\* The summary the full report carries itself.
OwnSummary == <<"g">>

\* The parsed report of submission i, before handleFormSubmit touches it.
ParsedReport(i) ==
    [sub |-> i, summary |-> OwnSummary, fields |-> i, visualBase64 |-> Null]

\* generateHealthReport: the settled promise, [st, val, msg].
generateHealthReport(i, resp) ==
    IF resp.kind = "error"
    THEN [st |-> "rejected", val |-> Null, msg |-> resp.message]
    ELSE IF ~resp.parses
    THEN [st |-> "rejected", val |-> Null, msg |-> ParseErrorMessage]
    ELSE [st |-> "ok", val |-> Some(ParsedReport(i)), msg |-> Null]

\* ----------------------------------------------------------------- state
VARIABLES
    appState,       \* App: AppState
    userProfile,    \* App: the profile last submitted (or the initial one)
    report,         \* App: Null or Some(draft)
    reportAudio,    \* App: Null or Some(narration audio)
    error,          \* App: Null or Some(user-facing message)
    subs,           \* the calls of handleFormSubmit so far, each with its promises
    preloadedAudioBase64, \* ReportDashboard: Null or Some(narration audio)
    prefetches,     \* ReportDashboard: audio pre-fetches in flight
    mounted,        \* ReportDashboard: the component is mounted
    isPlaying,      \* ReportDashboard state
    isLoadingAudio, \* ReportDashboard state
    audioContext,   \* ReportDashboard state: an AudioContext is stored
    ctxState,       \* the AudioContext: none | suspended | running
    audioBuffer,    \* ReportDashboard state: Null or Some(decoded buffer)
    currentTime,    \* ReportDashboard state: the displayed time
    duration,       \* ReportDashboard state
    sourceNodeRef,  \* ref: 0 (null) or the index of a buffer source
    startTimeRef,   \* ref
    pausedTimeRef,  \* ref
    sources,        \* the buffer sources created so far
    timers,         \* the setTimeout callbacks of playBuffer not yet run
    conts,          \* calls of handlePlayAudio suspended at an await
    now,            \* the clock, in units of 100 ms
    unhandledRejection, \* a call of handlePlayAudio has rejected (nothing
                    \* handles the promise the click handler returns)
    input,          \* the argument of a pure function under check (else Null)
    output,         \* Null, or Some(what the function made of input)
    localStorage    \* storageService: Null, or Some(the text stored under
                    \* STORAGE_KEY)

appVars == <<appState, userProfile, report, reportAudio, error, subs,
             preloadedAudioBase64, prefetches>>

sessionVars == <<mounted, isPlaying, isLoadingAudio, audioContext, ctxState,
                 audioBuffer, currentTime, duration, sourceNodeRef,
                 startTimeRef, pausedTimeRef, sources, timers, conts, now,
                 unhandledRejection>>

pureVars == <<input, output, localStorage>>

vars == <<appVars, sessionVars, pureVars>>

Pending == [st |-> "pending", val |-> Null, msg |-> Null]

\* The base64 data the speech model returns: raw PCM, or data that atob or
\* the sample layout rejects.
Payloads == {"pcm", "malformed"}

\* generateAudioSummary(text): the audio data the speech model returns for
\* the cleaned text.
generateAudioSummary(text, payload) ==
    [text |-> SafeText(text), payload |-> payload]

\* The state of the promises of a call of handleFormSubmit(data) when it
\* suspends at  await Promise.all([summaryPromise, reportPromise]).
NewSubmission(data) ==
    [ profile |-> data,
      visualPromise |-> Pending,
      summaryPromise |-> Pending,
      reportPromise |-> Pending,
      \* whether the model call inside generateFastSummary threw
      summaryThrew |-> FALSE,
      \* "chained": generateAudioSummary not called yet; arg: its argument
      audioPromise |-> [st |-> "chained", arg |-> Null, val |-> Null],
      \* where handleFormSubmit is: awaiting | joined | failed
      phase |-> "awaiting" ]

\* The useState and useRef initial values of ReportDashboard.
SessionInit ==
    /\ mounted = FALSE
    /\ isPlaying = FALSE
    /\ isLoadingAudio = FALSE
    /\ audioContext = FALSE
    /\ ctxState = "none"
    /\ audioBuffer = Null
    /\ currentTime = 0
    /\ duration = 0
    /\ sourceNodeRef = 0
    /\ startTimeRef = 0
    /\ pausedTimeRef = 0
    /\ sources = <<>>
    /\ timers = {}
    /\ conts = <<>>
    /\ now = 0
    /\ unhandledRejection = FALSE

Init ==
    /\ appState = "LANDING"
    /\ userProfile = INITIAL_USER_PROFILE
    /\ report = Null
    /\ reportAudio = Null
    /\ error = Null
    /\ subs = <<>>
    /\ preloadedAudioBase64 = Null
    /\ prefetches = {}
    /\ SessionInit
    /\ input = Null
    /\ output = Null
    /\ localStorage = Null

\* ------------------------------------------------------- ReportDashboard
\* App renders ReportDashboard only for  appState === REPORT && report.
DashboardShown(a, r) == a = "REPORT" /\ r # Null

\* An audio pre-fetch of the dashboard's effect: the text sent to the speech
\* model and the effect's isMounted flag.
Prefetch(summary) == [arg |-> summary, isMounted |-> TRUE]

\* The effect's cleanup: isMounted = false in every closure created so far.
CleanedUp(ps) == {[p EXCEPT !.isMounted = FALSE] : p \in ps}

\* The pre-fetch effect (deps [report.summary]) after App renders with
\* appState a2 and report r2: the pre-fetches in flight.
NextPrefetches(a2, r2) ==
    LET was == DashboardShown(appState, report)
        is  == DashboardShown(a2, r2)
        start(pre) == IF Val(r2).summary # <<>> /\ pre = Null
                      THEN {Prefetch(Val(r2).summary)} ELSE {}
    IN  IF ~is THEN CleanedUp(prefetches)
        ELSE IF ~was THEN prefetches \cup start(Null)
        ELSE IF Val(r2).summary # Val(report).summary
        THEN CleanedUp(prefetches) \cup start(preloadedAudioBase64)
        ELSE prefetches

\* preloadedAudioBase64 is state of the mounted dashboard: gone on unmount.
NextPreloaded(a2, r2) ==
    IF DashboardShown(a2, r2) /\ DashboardShown(appState, report)
    THEN preloadedAudioBase64 ELSE Null

\* App re-renders with appState a2 and report r2.
Render(a2, r2) ==
    /\ appState' = a2
    /\ report' = r2
    /\ prefetches' = NextPrefetches(a2, r2)
    /\ preloadedAudioBase64' = NextPreloaded(a2, r2)

\* ------------------------------------------------------------------- App
\* Mutant of ErrorMessage: the test for a malformed response comes first.
ErrorMessage_ParseFirst(message) ==
    IF message = Null THEN [kind |-> "connection", detail |-> Null]
    ELSE LET m == Val(message)
         IN  IF "parse" \in m
             THEN [kind |-> "malformed", detail |-> Null]
             ELSE IF "429" \in m \/ "Resource has been exhausted" \in m
             THEN [kind |-> "high traffic", detail |-> Null]
             ELSE IF "404" \in m \/ "Not Found" \in m
             THEN [kind |-> "unavailable", detail |-> Null]
             ELSE IF "API_KEY" \in m \/ "403" \in m
             THEN [kind |-> "configuration", detail |-> Null]
             ELSE IF "Safety" \in m \/ "blocked" \in m
             THEN [kind |-> "safety", detail |-> Null]
             ELSE [kind |-> "analysis failed", detail |-> message]

\* The catch block of handleFormSubmit: the user-facing message.
ErrorMessage(message) ==
    IF message = Null THEN [kind |-> "connection", detail |-> Null]
    ELSE LET m == Val(message)
         IN  IF "429" \in m \/ "Resource has been exhausted" \in m
             THEN [kind |-> "high traffic", detail |-> Null]
             ELSE IF "404" \in m \/ "Not Found" \in m
             THEN [kind |-> "unavailable", detail |-> Null]
             ELSE IF "API_KEY" \in m \/ "403" \in m
             THEN [kind |-> "configuration", detail |-> Null]
             ELSE IF "Safety" \in m \/ "blocked" \in m
             THEN [kind |-> "safety", detail |-> Null]
             ELSE IF "parse" \in m
             THEN [kind |-> "malformed", detail |-> Null]
             ELSE [kind |-> "analysis failed", detail |-> message]

\* Mutant of MergedDraft: the injection of the fast summary is forgotten.
MergedDraft_KeepsOwnSummary(fastSummary, generatedReport) == generatedReport

\* generatedReport.summary = fastSummary
MergedDraft(fastSummary, generatedReport) ==
    [generatedReport EXCEPT !.summary = fastSummary]

\* Mutant of AudioInput: the narration is made from the full report's text.
AudioInput_OwnSummary(summary) == OwnSummary

\* The argument of generateAudioSummary in  summaryPromise.then(...).
AudioInput(summary) == summary

\* Mutant of JoinReady: the join also waits for the image and the narration.
JoinReady_WaitsForAll(s) ==
    /\ s.summaryPromise.st = "ok" /\ s.reportPromise.st = "ok"
    /\ s.visualPromise.st = "ok" /\ s.audioPromise.st \in {"ok", "rejected"}

\* Promise.all([summaryPromise, reportPromise]) of submission s has resolved.
JoinReady(s) == s.summaryPromise.st = "ok" /\ s.reportPromise.st = "ok"

\* Mutant of JoinRejected: Promise.allSettled, the rejection is seen only
\* once the fast summary has settled too.
JoinRejected_AllSettled(s) ==
    s.reportPromise.st = "rejected" /\ s.summaryPromise.st = "ok"

\* Promise.all([summaryPromise, reportPromise]) of submission s has rejected.
JoinRejected(s) == s.reportPromise.st = "rejected"

\* Mutant of AttachVisual: the updater rebuilds the draft from the full
\* report, which loses the injected summary.
AttachVisual_LosesSummary(prev, base64Image) ==
    IF prev # Null
    THEN Some([Val(prev) EXCEPT !.visualBase64 = base64Image,
                                !.summary = OwnSummary])
    ELSE Null

\* setReport(prev => prev ? ({ ...prev, visualBase64: base64Image }) : null)
AttachVisual(prev, base64Image) ==
    IF prev # Null THEN Some([Val(prev) EXCEPT !.visualBase64 = base64Image])
    ELSE Null

\* The body of handleFormSubmit after the await, for submission i whose
\* record is s: steps 6 to 8, with the callbacks of promises already settled.
JoinContinuation(i, s) ==
    LET draft == MergedDraft(Val(s.summaryPromise.val), Val(s.reportPromise.val))
        shown == IF s.visualPromise.st = "ok" /\ s.visualPromise.val # Null
                 THEN AttachVisual(Some(draft), s.visualPromise.val)
                 ELSE Some(draft)
    IN  /\ Render("REPORT", shown)
        /\ reportAudio' = IF s.audioPromise.st = "ok"
                          THEN s.audioPromise.val ELSE reportAudio
        /\ subs' = [subs EXCEPT ![i] = [s EXCEPT !.phase = "joined"]]
        /\ UNCHANGED <<userProfile, error>>

\* The catch block of handleFormSubmit for submission i.
CatchContinuation(i, s) ==
    /\ error' = Some(ErrorMessage(s.reportPromise.msg))
    /\ Render("ERROR", report)
    /\ subs' = [subs EXCEPT ![i] = [s EXCEPT !.phase = "failed"]]
    /\ UNCHANGED <<userProfile, reportAudio>>

\* Submission i's record became s with one more promise settled: resume
\* handleFormSubmit if it is suspended at the await and the join is decided.
Resume(i, s) ==
    IF s.phase = "awaiting" /\ JoinRejected(s) THEN CatchContinuation(i, s)
    ELSE IF s.phase = "awaiting" /\ JoinReady(s) THEN JoinContinuation(i, s)
    ELSE /\ subs' = [subs EXCEPT ![i] = s]
         /\ UNCHANGED <<appState, userProfile, report, reportAudio, error,
                        preloadedAudioBase64, prefetches>>

handleStart ==
    /\ appState = "LANDING"
    /\ Render("FORM", report)
    /\ UNCHANGED <<userProfile, reportAudio, error, subs>>

handleOpenBloodBlog ==
    /\ appState = "LANDING"
    /\ Render("BLOOD_BLOG", report)
    /\ UNCHANGED <<userProfile, reportAudio, error, subs>>

\* handleFormSubmit(data) up to its await.
Submit(data) ==
    /\ Len(subs) < MaxSubs
    /\ userProfile' = data
    /\ Render("LOADING", report)
    /\ error' = Null
    /\ reportAudio' = Null
    /\ subs' = Append(subs, NewSubmission(data))

\* HealthForm's onSubmit
handleFormSubmit ==
    /\ appState = "FORM"
    /\ \E data \in Profiles : Submit(data)

handleRetry ==
    /\ appState = "ERROR"
    /\ IF userProfile.age # ""
       THEN Submit(userProfile)
       ELSE /\ Render("FORM", report)
            /\ UNCHANGED <<userProfile, reportAudio, error, subs>>

handleEditProfile ==
    /\ appState = "ERROR"
    /\ Render("FORM", report)
    /\ UNCHANGED <<userProfile, reportAudio, error, subs>>

\* The header's logo, the form's cancel, the blog's and the report's back.
handleReset ==
    /\ userProfile' = INITIAL_USER_PROFILE
    /\ reportAudio' = Null
    /\ Render("LANDING", Null)
    /\ UNCHANGED <<error, subs>>

\* generateReportVisual settles: image data, or undefined (no image part,
\* or the call failed: its catch returns undefined).
VisualDone(i) ==
    /\ subs[i].visualPromise.st = "pending"
    /\ \E img \in {Null, Some([sub |-> i])} :
         LET s == [subs[i] EXCEPT
                     !.visualPromise = [st |-> "ok", val |-> img, msg |-> Null]]
         IN  /\ subs' = [subs EXCEPT ![i] = s]
             /\ IF s.phase = "joined" /\ img # Null
                THEN Render(appState, AttachVisual(report, img))
                ELSE UNCHANGED <<appState, report, preloadedAudioBase64,
                                 prefetches>>
             /\ UNCHANGED <<userProfile, reportAudio, error>>

\* generateFastSummary settles; the chained generateAudioSummary is called.
FastSummaryDone(i) ==
    /\ subs[i].summaryPromise.st = "pending"
    /\ \E resp \in SummaryResponses :
         LET summary == generateFastSummary(resp)
             s == [subs[i] EXCEPT
                     !.summaryPromise =
                         [st |-> "ok", val |-> Some(summary), msg |-> Null],
                     !.summaryThrew = (resp.kind = "error"),
                     !.audioPromise =
                         [st |-> "pending", arg |-> Some(AudioInput(summary)),
                          val |-> Null]]
         IN  Resume(i, s)

\* generateHealthReport settles.
ReportDone(i) ==
    /\ subs[i].reportPromise.st = "pending"
    /\ \E resp \in ReportResponses :
         Resume(i, [subs[i] EXCEPT
                      !.reportPromise = generateHealthReport(i, resp)])

\* generateAudioSummary settles: audio data, or it throws.
AudioDone(i) ==
    /\ subs[i].audioPromise.st = "pending"
    /\ \E ok \in BOOLEAN :
         LET a == subs[i].audioPromise
             s == [subs[i] EXCEPT
                     !.audioPromise =
                         IF ok
                         THEN [a EXCEPT !.st = "ok",
                                 !.val = Some(generateAudioSummary(Val(a.arg), "pcm"))]
                         ELSE [a EXCEPT !.st = "rejected"]]
         IN  /\ subs' = [subs EXCEPT ![i] = s]
             /\ reportAudio' = IF ok /\ s.phase = "joined"
                               THEN s.audioPromise.val ELSE reportAudio
             /\ UNCHANGED <<appState, userProfile, report, error,
                            preloadedAudioBase64, prefetches>>

\* The dashboard's pre-fetch p settles: audio data, or it throws.
PrefetchDone(p) ==
    /\ prefetches' = prefetches \ {p}
    /\ \/ \E payload \in Payloads :
            preloadedAudioBase64' =
                IF p.isMounted THEN Some(generateAudioSummary(p.arg, payload))
                ELSE preloadedAudioBase64
       \/ UNCHANGED preloadedAudioBase64
    /\ UNCHANGED <<appState, userProfile, report, reportAudio, error, subs>>

\* The orchestrator: the playback session of the dashboard is left aside.
Next ==
    \/ handleStart /\ UNCHANGED <<sessionVars, pureVars>>
    \/ handleOpenBloodBlog /\ UNCHANGED <<sessionVars, pureVars>>
    \/ handleFormSubmit /\ UNCHANGED <<sessionVars, pureVars>>
    \/ handleRetry /\ UNCHANGED <<sessionVars, pureVars>>
    \/ handleEditProfile /\ UNCHANGED <<sessionVars, pureVars>>
    \/ handleReset /\ UNCHANGED <<sessionVars, pureVars>>
    \/ \E i \in 1..Len(subs) : VisualDone(i) /\ UNCHANGED <<sessionVars, pureVars>>
    \/ \E i \in 1..Len(subs) : FastSummaryDone(i) /\ UNCHANGED <<sessionVars, pureVars>>
    \/ \E i \in 1..Len(subs) : ReportDone(i) /\ UNCHANGED <<sessionVars, pureVars>>
    \/ \E i \in 1..Len(subs) : AudioDone(i) /\ UNCHANGED <<sessionVars, pureVars>>
    \/ \E p \in prefetches : PrefetchDone(p) /\ UNCHANGED <<sessionVars, pureVars>>

Spec == Init /\ [][Next]_vars


\* ================================================= the playback session
\* playBuffer's timer fires 200 ms after the end of the audio: 2 units.
Margin == 2

Min(a, b) == IF a <= b THEN a ELSE b

\* A React state setter: without effect once the component is unmounted.
SetState(new, old) == IF mounted THEN new ELSE old

\* The values of the render that the running handlePlayAudio closed over.
Closure ==
    [audioBuffer |-> audioBuffer, preloaded |-> preloadedAudioBase64,
     currentTime |-> currentTime, duration |-> duration,
     summary |-> Val(report).summary]

\* Mutant of DecodedBuffer: a payload that cannot be decoded yields a buffer
\* all the same, an empty one.
DecodedBuffer_EmptyOnFailure(data) ==
    Some([duration |-> IF data.payload = "pcm" THEN AudioUnits ELSE 0])

\* decodePCM on narration data within the session: the buffer (of which only
\* the duration matters here), or Null when atob or the decoding throws.
DecodedBuffer(data) ==
    IF data.payload = "pcm" THEN Some([duration |-> AudioUnits]) ELSE Null

\* source.stop() on source k (0: no source); a second stop changes nothing.
Stop(srcs, k) ==
    IF k # 0 /\ srcs[k].stoppedAt < 0
    THEN [srcs EXCEPT ![k].stoppedAt = now] ELSE srcs

\* Mutant of StopCurrent: playBuffer starts the new source without stopping
\* the one in sourceNodeRef.
StopCurrent_Skipped(srcs, ref) == srcs

\* playBuffer: if (sourceNodeRef.current) sourceNodeRef.current.stop()
StopCurrent(srcs, ref) == Stop(srcs, ref)

\* playBuffer: the delay of setTimeout, durationRemaining * 1000 + 200.
TimerDelay(buffer, startOffset) == (buffer.duration - startOffset) + Margin

\* handlePlayAudio: const startOffset = currentTime >= duration ? 0 : pausedTimeRef.current
StartOffset(cap) ==
    IF cap.currentTime >= cap.duration THEN 0 ELSE pausedTimeRef

\* playBuffer(ctx, buffer, startOffset); tm: the timers not yet run.
playBuffer(buffer, startOffset, tm) ==
    LET source == Len(sources) + 1
    IN  /\ sources' = Append(StopCurrent(sources, sourceNodeRef),
                             [offset |-> startOffset, startedAt |-> now,
                              stoppedAt |-> -1])
        /\ startTimeRef' = now - startOffset
        /\ sourceNodeRef' = source
        /\ isPlaying' = SetState(TRUE, isPlaying)
        /\ timers' = tm \cup
              {[source |-> source, at |-> now + TimerDelay(buffer, startOffset)]}

\* decodePCM succeeded: setAudioBuffer, setDuration, playBuffer(ctx, buffer, 0).
DecodeAndPlay(decoded) ==
    /\ audioBuffer' = SetState(decoded, audioBuffer)
    /\ duration' = SetState(Val(decoded).duration, duration)
    /\ playBuffer(Val(decoded), 0, timers)

\* handlePlayAudio from  if (!audioBuffer)  on, with the closure cap; cs: the
\* other suspended calls.
PlayBody(cap, cs) ==
    IF cap.audioBuffer = Null /\ cap.preloaded = Null
    THEN \* on-demand fetch: suspend at  await generateAudioSummary(...)
         /\ isLoadingAudio' = SetState(TRUE, isLoadingAudio)
         /\ conts' = Append(cs, [stage |-> "fetch", cap |-> cap])
         /\ UNCHANGED <<isPlaying, audioBuffer, currentTime, duration,
                        sourceNodeRef, startTimeRef, pausedTimeRef, sources,
                        timers>>
    ELSE IF cap.audioBuffer = Null
    THEN /\ conts' = cs
         /\ IF DecodedBuffer(Val(cap.preloaded)) # Null
            THEN DecodeAndPlay(DecodedBuffer(Val(cap.preloaded)))
            ELSE \* "Audio decode failed"
                 UNCHANGED <<isPlaying, audioBuffer, duration, sourceNodeRef,
                             startTimeRef, sources, timers>>
         /\ UNCHANGED <<isLoadingAudio, currentTime, pausedTimeRef>>
    ELSE /\ conts' = cs
         /\ playBuffer(Val(cap.audioBuffer), StartOffset(cap), timers)
         /\ UNCHANGED <<isLoadingAudio, audioBuffer, currentTime, duration,
                        pausedTimeRef>>

\* What the session's own steps leave alone in App and in the pre-fetch.
appFrame == <<appState, userProfile, report, reportAudio, error, subs>>
dashFrame == <<preloadedAudioBase64, prefetches>>

\* handlePlayAudio when isPlaying: the pause branch.
Pause ==
    /\ IF sourceNodeRef # 0 /\ audioContext
       THEN /\ sources' = Stop(sources, sourceNodeRef)
            /\ pausedTimeRef' = now - startTimeRef
            /\ currentTime' = now - startTimeRef
            /\ isPlaying' = FALSE
       ELSE UNCHANGED <<sources, pausedTimeRef, currentTime, isPlaying>>
    /\ UNCHANGED <<mounted, unhandledRejection, isLoadingAudio, audioContext,
                   ctxState, audioBuffer, duration, sourceNodeRef,
                   startTimeRef, timers, conts, now>>

\* handlePlayAudio when not playing, up to its first await or to its end.
Play ==
    /\ Len(sources) < MaxSources
    /\ Len(conts) < MaxConts
    /\ \/ \* new AudioContext(...) throws: handlePlayAudio rejects
          /\ ~audioContext
          /\ unhandledRejection' = TRUE
          /\ UNCHANGED <<mounted, isPlaying, isLoadingAudio, audioContext,
                         ctxState, audioBuffer, currentTime, duration,
                         sourceNodeRef, startTimeRef, pausedTimeRef, sources,
                         timers, conts, now>>
       \/ \E st \in (IF audioContext THEN {ctxState}
                     ELSE {"running", "suspended"}) :
            /\ audioContext' = TRUE
            /\ ctxState' = st
            /\ IF st = "suspended"
               THEN \* suspend at  await ctx.resume()
                    /\ conts' = Append(conts, [stage |-> "resume",
                                               cap |-> Closure])
                    /\ UNCHANGED <<isPlaying, isLoadingAudio, audioBuffer,
                                   currentTime, duration, sourceNodeRef,
                                   startTimeRef, pausedTimeRef, sources, timers>>
               ELSE PlayBody(Closure, conts)
            /\ UNCHANGED <<mounted, unhandledRejection, now>>

\* A click on the play/pause button (disabled while isLoadingAudio).
handlePlayAudio ==
    /\ mounted
    /\ ~isLoadingAudio
    /\ IF isPlaying THEN Pause ELSE Play
    /\ UNCHANGED <<appFrame, dashFrame>>

Remove(seq, k) == SubSeq(seq, 1, k - 1) \o SubSeq(seq, k + 1, Len(seq))

\* ctx.resume() settles for the suspended call k.
ResumeDone(k) ==
    /\ conts[k].stage = "resume"
    /\ Len(sources) < MaxSources
    /\ \/ /\ ctxState' = "running"
          /\ PlayBody(conts[k].cap, Remove(conts, k))
          /\ UNCHANGED <<mounted, unhandledRejection, audioContext, now>>
       \/ \* resume() rejects: handlePlayAudio rejects
          /\ conts' = Remove(conts, k)
          /\ unhandledRejection' = TRUE
          /\ UNCHANGED <<mounted, isPlaying, isLoadingAudio, audioContext,
                         ctxState, audioBuffer, currentTime, duration,
                         sourceNodeRef, startTimeRef, pausedTimeRef, sources,
                         timers, now>>
    /\ UNCHANGED <<appFrame, dashFrame>>

\* The on-demand generateAudioSummary of the suspended call k settles.
FetchDone(k) ==
    /\ conts[k].stage = "fetch"
    /\ Len(sources) < MaxSources
    /\ conts' = Remove(conts, k)
    /\ isLoadingAudio' = SetState(FALSE, isLoadingAudio)
    /\ \/ \E payload \in Payloads :
            LET data == generateAudioSummary(conts[k].cap.summary, payload)
            IN  IF DecodedBuffer(data) # Null
                THEN DecodeAndPlay(DecodedBuffer(data))
                ELSE \* "Audio playback failed"
                     UNCHANGED <<isPlaying, audioBuffer, duration,
                                 sourceNodeRef, startTimeRef, sources, timers>>
       \/ \* generateAudioSummary throws: "Audio playback failed"
          UNCHANGED <<isPlaying, audioBuffer, duration, sourceNodeRef,
                      startTimeRef, sources, timers>>
    /\ UNCHANGED <<mounted, unhandledRejection, audioContext, ctxState,
                   currentTime, pausedTimeRef, now>>
    /\ UNCHANGED <<appFrame, dashFrame>>

\* Mutant of TimerReset: the stored offset is not rewound.
TimerReset_KeepsOffset(offset) == offset

\* The timer's callback: pausedTimeRef.current = 0
TimerReset(offset) == 0

\* Mutant of TimerFire: the callback resets the session without comparing
\* sourceNodeRef.current with its own source.
TimerFire_Unguarded(t) ==
    /\ now >= t.at
    /\ timers' = timers \ {t}
    /\ isPlaying' = SetState(FALSE, isPlaying)
    /\ pausedTimeRef' = TimerReset(pausedTimeRef)
    /\ currentTime' = SetState(0, currentTime)
    /\ UNCHANGED <<mounted, unhandledRejection, isLoadingAudio, audioContext,
                   ctxState, audioBuffer, duration, sourceNodeRef,
                   startTimeRef, sources, conts, now>>
    /\ UNCHANGED <<appFrame, dashFrame>>

\* The setTimeout callback t of playBuffer runs, not before its delay.
TimerFire(t) ==
    /\ now >= t.at
    /\ timers' = timers \ {t}
    /\ IF sourceNodeRef = t.source
       THEN /\ isPlaying' = SetState(FALSE, isPlaying)
            /\ pausedTimeRef' = TimerReset(pausedTimeRef)
            /\ currentTime' = SetState(0, currentTime)
       ELSE UNCHANGED <<isPlaying, pausedTimeRef, currentTime>>
    /\ UNCHANGED <<mounted, unhandledRejection, isLoadingAudio, audioContext,
                   ctxState, audioBuffer, duration, sourceNodeRef,
                   startTimeRef, sources, conts, now>>
    /\ UNCHANGED <<appFrame, dashFrame>>

\* One frame of the animation loop.
animate ==
    /\ mounted
    /\ audioContext /\ isPlaying
    /\ currentTime' = Min(now - startTimeRef, duration)
    /\ UNCHANGED <<mounted, unhandledRejection, isPlaying, isLoadingAudio,
                   audioContext, ctxState, audioBuffer, duration,
                   sourceNodeRef, startTimeRef, pausedTimeRef, sources,
                   timers, conts, now>>
    /\ UNCHANGED <<appFrame, dashFrame>>

\* 100 ms pass.
Tick ==
    /\ now < MaxClock
    /\ now' = now + 1
    /\ UNCHANGED <<mounted, unhandledRejection, isPlaying, isLoadingAudio,
                   audioContext, ctxState, audioBuffer, currentTime, duration,
                   sourceNodeRef, startTimeRef, pausedTimeRef, sources,
                   timers, conts>>
    /\ UNCHANGED <<appFrame, dashFrame>>

\* The user leaves the report (onReset): App resets and the dashboard
\* unmounts.  The cleanup effect has no dependencies, so the audioContext it
\* sees is the one of the first render, null: only the source is stopped.
Unmount ==
    /\ mounted
    /\ handleReset
    /\ mounted' = FALSE
    /\ sources' = Stop(sources, sourceNodeRef)
    /\ UNCHANGED <<unhandledRejection, isPlaying, isLoadingAudio, audioContext, ctxState,
                   audioBuffer, currentTime, duration, sourceNodeRef,
                   startTimeRef, pausedTimeRef, timers, conts, now>>

\* The summary whose report the session of SpecAudio narrates.
ShownSummary == <<"*", "s">>

\* The dashboard has just been mounted for the report of a first submission
\* all of whose calls have settled (no image, no narration attached).
InitAudio ==
    /\ appState = "REPORT"
    /\ userProfile = [age |-> "34", tag |-> "p1"]
    /\ report = Some(MergedDraft(ShownSummary, ParsedReport(1)))
    /\ reportAudio = Null
    /\ error = Null
    /\ subs = << [ profile |-> [age |-> "34", tag |-> "p1"],
                   visualPromise |-> [st |-> "ok", val |-> Null, msg |-> Null],
                   summaryPromise |-> [st |-> "ok", val |-> Some(ShownSummary),
                                       msg |-> Null],
                   reportPromise |-> [st |-> "ok", val |-> Some(ParsedReport(1)),
                                      msg |-> Null],
                   summaryThrew |-> FALSE,
                   audioPromise |-> [st |-> "rejected",
                                     arg |-> Some(ShownSummary), val |-> Null],
                   phase |-> "joined" ] >>
    /\ preloadedAudioBase64 = Null
    /\ prefetches = {Prefetch(ShownSummary)}
    /\ mounted = TRUE
    /\ isPlaying = FALSE
    /\ isLoadingAudio = FALSE
    /\ audioContext = FALSE
    /\ ctxState = "none"
    /\ audioBuffer = Null
    /\ currentTime = 0
    /\ duration = 0
    /\ sourceNodeRef = 0
    /\ startTimeRef = 0
    /\ pausedTimeRef = 0
    /\ sources = <<>>
    /\ timers = {}
    /\ conts = <<>>
    /\ now = 0
    /\ unhandledRejection = FALSE
    /\ input = Null
    /\ output = Null
    /\ localStorage = Null

NextAudio ==
    \/ handlePlayAudio /\ UNCHANGED pureVars
    \/ \E k \in 1..Len(conts) : ResumeDone(k) /\ UNCHANGED pureVars
    \/ \E k \in 1..Len(conts) : FetchDone(k) /\ UNCHANGED pureVars
    \/ \E p \in prefetches :
          PrefetchDone(p) /\ UNCHANGED <<sessionVars, pureVars>>
    \/ \E t \in timers : TimerFire(t) /\ UNCHANGED pureVars
    \/ animate /\ UNCHANGED pureVars
    \/ Tick /\ UNCHANGED pureVars
    \/ Unmount /\ UNCHANGED pureVars

SpecAudio == InitAudio /\ [][NextAudio]_vars

\* ================================================== the playback session
\* Source k has been started and not stopped.
Active(k) == sources[k].stoppedAt < 0

\* The step creates a buffer source (a call of playBuffer).
Started == Len(sources') = Len(sources) + 1

\* The source created by the step.
NewSource == sources'[Len(sources')]

\* C1: At most one buffer source is started and not yet stopped at any
\* instant, and it is the one the session references; every start of a new
\* source by playBuffer comes with the stop of the source referenced before.
C1_SinglePrimitive ==
    /\ [](\A j, k \in 1..Len(sources) : Active(j) /\ Active(k) => j = k)
    /\ [](\A k \in 1..Len(sources) : Active(k) => k = sourceNodeRef)
    /\ [][Started =>
            /\ sourceNodeRef' = Len(sources')
            /\ \A k \in 1..Len(sources) : sources'[k].stoppedAt >= 0
            /\ sourceNodeRef # 0 =>
                  sources'[sourceNodeRef].stoppedAt >= 0]_vars

\* C1 witness: a second source was started while the first was playing (no
\* pause, no timer and no unmount in between): the first was stopped by
\* playBuffer at that instant and only the second is active.
C1_Witness ==
    /\ mounted
    /\ Len(sources) = 2
    /\ Cardinality(timers) = 2
    /\ pausedTimeRef = 0
    /\ sources[1].startedAt < sources[1].stoppedAt
    /\ sources[1].stoppedAt = sources[2].startedAt
    /\ Active(2)
    /\ isPlaying

\* The position at which source k was stopped.
PausePoint(k) ==
    sources[k].offset + (sources[k].stoppedAt - sources[k].startedAt)

\* The session is paused: the referenced source was stopped by the pause
\* branch (playBuffer would have replaced the reference, and the component is
\* still mounted), before the end of the audio.
Paused ==
    /\ mounted
    /\ sourceNodeRef # 0
    /\ ~Active(sourceNodeRef)
    /\ PausePoint(sourceNodeRef) < duration

\* C2: Pause-then-play resumes at the paused offset.  For as long as the
\* session stays paused at o+t < duration, the stored offset is o+t, so that
\* the next play starts there.
C2_PauseKeepsOffset ==
    Paused => pausedTimeRef = PausePoint(sourceNodeRef)

\* The delay after which the auto-stop timer of source k is due.
DueAt(k) == sources[k].startedAt + (AudioUnits - sources[k].offset) + Margin

\* The step runs the auto-stop timer of the referenced source, which has
\* played without a pause.
AutoStop ==
    /\ mounted
    /\ sourceNodeRef # 0
    /\ Active(sourceNodeRef)
    /\ \E t \in timers : t.source = sourceNodeRef /\ timers' = timers \ {t}

\* The session after a natural end of the audio: Stopped, rewound.
Ended ==
    /\ mounted
    /\ ~isPlaying
    /\ sourceNodeRef # 0
    /\ Active(sourceNodeRef)

\* The step is a press of play (and not the end of a suspended call).
PlayPressed == mounted /\ ~isPlaying /\ Started /\ conts' = conts

\* C3: Natural end-of-audio rewinds.  The auto-stop timer of a source that
\* plays without pause is armed for (duration - o) plus the margin; when it
\* runs, the session is Stopped with stored offset 0 and displayed time 0,
\* it stays so until the next play, and that play starts at offset 0.  A play
\* pressed when the displayed time is >= duration starts at offset 0 as well.
C3_NaturalEndRewinds ==
    /\ [](\A k \in 1..Len(sources) :
            (mounted /\ isPlaying /\ Active(k)) =>
                \E t \in timers : t.source = k /\ t.at = DueAt(k))
    /\ [][AutoStop =>
            /\ now >= DueAt(sourceNodeRef)
            /\ ~isPlaying' /\ pausedTimeRef' = 0 /\ currentTime' = 0]_vars
    /\ [](Ended => pausedTimeRef = 0 /\ currentTime = 0)
    /\ [][(Ended /\ Started) => NewSource.offset = 0]_vars
    /\ [][(PlayPressed /\ currentTime >= duration) =>
            NewSource.offset = 0]_vars

\* C3 witness: a source resumed at an offset > 0 played to its end, its timer
\* ran, and the next play started a source at offset 0.
C3_Witness ==
    /\ mounted
    /\ Len(sources) = 3
    /\ sources[2].offset > 0
    /\ sources[2].stoppedAt >= DueAt(2)
    /\ \A t \in timers : t.source # 2
    /\ sources[3].offset = 0
    /\ pausedTimeRef = 0
    /\ isPlaying

\* C3 witness of the second case: play was pressed with the displayed time
\* at or past the end (paused after the end, before the timer).
C3_WitnessPastEnd ==
    /\ mounted
    /\ Len(sources) = 2
    /\ pausedTimeRef >= duration
    /\ duration > 0
    /\ sources[2].offset = 0
    /\ Active(2)

\* ====================================================== the orchestrator
Submissions == 1..Len(subs)

\* The fast-summary and the full-report call of submission s have resolved.
BothResolved(s) == s.summaryPromise.st = "ok" /\ s.reportPromise.st = "ok"

\* The draft in App's state is the one submission i produced.
DraftOf(i) == report # Null /\ Val(report).sub = i

\* C4: Join semantics.  A submission's handler passes its await, and a draft
\* of that submission is stored, only when both its fast-summary and its
\* full-report call have resolved; every step that brings the app to REPORT
\* is the join of such a submission and displays its draft; and a stored draft
\* carries its submission's fast summary as summary and the full report's
\* other fields.
C4_JoinSemantics ==
    /\ [](\A i \in Submissions :
            /\ subs[i].phase = "joined" => BothResolved(subs[i])
            /\ DraftOf(i) =>
                  /\ BothResolved(subs[i])
                  /\ Val(report).summary = Val(subs[i].summaryPromise.val)
                  /\ Val(report).fields = Val(subs[i].reportPromise.val).fields)
    /\ [][(appState # "REPORT" /\ appState' = "REPORT") =>
            \E i \in Submissions :
                /\ subs[i].phase = "awaiting" /\ subs'[i].phase = "joined"
                /\ BothResolved(subs'[i])
                /\ report' # Null /\ Val(report').sub = i]_vars

\* A report is displayed; its summary is the fast summary of its submission
\* (here the default text), not the full report's own.
C4_Witness ==
    /\ appState = "REPORT" /\ report # Null
    /\ Val(report).summary = DefaultSummary
    /\ Val(report).summary # OwnSummary
    /\ subs[Val(report).sub].phase = "joined"

\* C5: The narration request of a submission is issued only after its fast
\* summary has resolved, and with that summary as its input; the image, the
\* fast-summary and the full-report call are in flight as soon as the
\* submission is made.
C5_NarrationChained ==
    /\ [](\A i \in Submissions :
            subs[i].audioPromise.st # "chained" =>
                /\ subs[i].summaryPromise.st = "ok"
                /\ subs[i].audioPromise.arg = subs[i].summaryPromise.val)
    /\ [][Len(subs') > Len(subs) =>
            LET s == subs'[Len(subs')]
            IN  /\ s.visualPromise.st = "pending"
                /\ s.summaryPromise.st = "pending"
                /\ s.reportPromise.st = "pending"
                /\ s.audioPromise.st = "chained"]_vars

\* The narration has been requested (and has even completed) while the full
\* report and the image of the same submission are still pending.
C5_Witness ==
    \E i \in Submissions :
        /\ subs[i].audioPromise.st = "ok"
        /\ subs[i].reportPromise.st = "pending"
        /\ subs[i].visualPromise.st = "pending"

\* The image call of submission s has failed (it resolved with undefined).
ImageFailed(s) == s.visualPromise.st = "ok" /\ s.visualPromise.val = Null

\* C6: Partial-failure tolerance.  A submission whose two required calls have
\* resolved has joined, whatever became of its image and narration calls;
\* while its draft is displayed, a failed image call means an unset image
\* field and a failed narration call means no attached audio; and the app is
\* in ERROR only after a full-report call rejected.
C6_PartialFailureTolerance ==
    /\ \A i \in Submissions :
         /\ BothResolved(subs[i]) => subs[i].phase = "joined"
         /\ (appState = "REPORT" /\ DraftOf(i)) =>
               /\ ImageFailed(subs[i]) => Val(report).visualBase64 = Null
               /\ subs[i].audioPromise.st = "rejected" => reportAudio = Null
    /\ appState = "ERROR" =>
          \E i \in Submissions : subs[i].reportPromise.st = "rejected"

\* C6 within one submission: the failure of an optional call is a step that
\* changes neither the app state, nor the error, nor the draft, nor the
\* attached audio; the join displays the submission's draft, without image if
\* the image call had failed; the fields stay unset for as long as no other
\* submission has got past its join.
C6_FailureChangesNothing ==
    /\ [](\A i \in Submissions :
            (/\ appState = "REPORT" /\ DraftOf(i)
             /\ \A j \in Submissions \ {i} : subs[j].phase # "joined") =>
                /\ ImageFailed(subs[i]) => Val(report).visualBase64 = Null
                /\ subs[i].audioPromise.st = "rejected" => reportAudio = Null)
    /\ [][\A i \in Submissions :
            /\ (~ImageFailed(subs[i]) /\ ImageFailed(subs'[i])) =>
                  UNCHANGED <<appState, error, report, reportAudio>>
            /\ (subs[i].audioPromise.st = "pending"
                  /\ subs'[i].audioPromise.st = "rejected") =>
                  UNCHANGED <<appState, error, report, reportAudio>>
            /\ (subs[i].phase = "awaiting" /\ subs'[i].phase = "joined") =>
                  /\ appState' = "REPORT" /\ report' # Null
                  /\ Val(report').fields = Val(subs'[i].reportPromise.val).fields
                  /\ ImageFailed(subs'[i]) => Val(report').visualBase64 = Null
                  /\ subs'[i].audioPromise.st = "rejected" =>
                        reportAudio' = reportAudio]_vars

\* The image call failed before the join and the narration call after it; the
\* report of that submission is displayed, without image and without audio.
C6_Witness ==
    \E i \in Submissions :
        /\ appState = "REPORT" /\ DraftOf(i)
        /\ ImageFailed(subs[i]) /\ subs[i].audioPromise.st = "rejected"
        /\ Val(report).visualBase64 = Null /\ reportAudio = Null
        /\ error = Null

\* C7: Required-path failure.  A rejection of the full-report call, whenever
\* it comes, takes the app to ERROR with the message of the rejection's kind;
\* a submission whose full report rejected never gets past its await, and
\* neither a draft nor an image of it is ever stored.
C7_RequiredPathFailure ==
    /\ [](\A i \in Submissions :
            subs[i].reportPromise.st = "rejected" =>
                /\ subs[i].phase = "failed"
                /\ ~DraftOf(i)
                /\ report # Null => Val(report).visualBase64 # Some([sub |-> i]))
    /\ [][\A i \in Submissions :
            (subs[i].reportPromise.st = "pending"
               /\ subs'[i].reportPromise.st = "rejected") =>
                /\ appState' = "ERROR"
                /\ error' # Null
                /\ Val(error').kind =
                      (IF subs'[i].reportPromise.msg = Null THEN "connection"
                       ELSE IF "429" \in Val(subs'[i].reportPromise.msg)
                       THEN "high traffic" ELSE "malformed")]_vars

\* A full report rejected while the fast summary was still pending; later the
\* image of that submission resolved with data, and nothing was stored.
C7_Witness ==
    \E i \in Submissions :
        /\ subs[i].reportPromise.st = "rejected"
        /\ subs[i].visualPromise.st = "ok" /\ subs[i].visualPromise.val # Null
        /\ subs[i].audioPromise.st = "ok"
        /\ appState = "ERROR" /\ error # Null /\ report = Null

C9_JoinDoesNotWait ==
    [][\A i \in Submissions :
         (~BothResolved(subs[i]) /\ BothResolved(subs'[i])) =>
            /\ appState' = "REPORT"
            /\ report' # Null /\ Val(report').sub = i
            /\ Val(report').summary = Val(subs'[i].summaryPromise.val)
            /\ subs'[i].phase = "joined"]_vars

\* The report is displayed while the image and the narration of its
\* submission are still pending.
C9_Witness ==
    \E i \in Submissions :
        /\ appState = "REPORT" /\ DraftOf(i)
        /\ subs[i].visualPromise.st = "pending"
        /\ subs[i].audioPromise.st = "pending"

\* C10: Shown text and narrated text are identical.  Whenever a draft is
\* displayed, the narration attached to it and the narration preloaded for it
\* were generated from text equal to the draft's summary.
C10_ShownEqualsNarrated ==
    (appState = "REPORT" /\ report # Null) =>
        /\ reportAudio # Null => Val(reportAudio).text = Val(report).summary
        /\ preloadedAudioBase64 # Null =>
              Val(preloadedAudioBase64).text = Val(report).summary

\* C10 up to the cleaning of generateAudioSummary: the narrated text is the
\* displayed summary without its markdown characters, cut to 600 characters.
C10_ShownEqualsNarratedCleaned ==
    (appState = "REPORT" /\ report # Null) =>
        /\ reportAudio # Null =>
              Val(reportAudio).text = SafeText(Val(report).summary)
        /\ preloadedAudioBase64 # Null =>
              Val(preloadedAudioBase64).text = SafeText(Val(report).summary)

\* ------------------------------------------------------------------- C11
\* Submission i was abandoned by a reset while its two required calls were in
\* flight: its handler is still at its await and either the app is on LANDING
\* (which only handleReset enters), or a later submission exists (the first
\* submission's LOADING can only have been left by a reset).
Stale(i) ==
    /\ subs[i].phase = "awaiting"
    /\ appState = "LANDING" \/ (i = 1 /\ Len(subs) > 1)

\* C11: Stale submissions are ignored.  The step in which the handler of a
\* stale submission gets past its await, by the resolution or the rejection of
\* its calls, changes neither the app state, nor the stored draft, nor the
\* error message.
C11_StaleIgnored ==
    [][\A i \in Submissions :
         (Stale(i) /\ subs'[i].phase # "awaiting") =>
             UNCHANGED <<appState, report, error>>]_vars

\* ============================================= generateHealthReport: sources
\* App and dashboard at rest, while a pure function is under check.
Idle ==
    /\ appState = "LANDING"
    /\ userProfile = INITIAL_USER_PROFILE
    /\ report = Null
    /\ reportAudio = Null
    /\ error = Null
    /\ subs = <<>>
    /\ preloadedAudioBase64 = Null
    /\ prefetches = {}
    /\ SessionInit
    /\ localStorage = Null

\* Grounding chunks per response, at most.
MaxChunks == 3

\* A grounding chunk's web.title and web.uri; "" stands for a missing web
\* part, a missing field or the empty string (all falsy).
Chunks == [title : {"", "a", "b"}, uri : {"", "u", "v"}]

RECURSIVE SeqsUpTo(_, _)
\* The sequences over S of length at most n.
SeqsUpTo(S, n) ==
    IF n = 0 THEN {<<>>}
    ELSE LET shorter == SeqsUpTo(S, n - 1)
         IN  shorter \cup {Append(q, x) : q \in shorter, x \in S}

\* .map(chunk => ({ title: chunk.web?.title || "Source", uri: chunk.web?.uri || "" }))
ToSource(chunk) ==
    [title |-> IF chunk.title = "" THEN "Source" ELSE chunk.title,
     uri |-> chunk.uri]

RECURSIVE MappedAndFiltered(_)
\* chunks.map(...).filter(source => source.uri !== "")
MappedAndFiltered(chunks) ==
    IF chunks = <<>> THEN <<>>
    ELSE IF ToSource(Head(chunks)).uri # ""
    THEN <<ToSource(Head(chunks))>> \o MappedAndFiltered(Tail(chunks))
    ELSE MappedAndFiltered(Tail(chunks))

\* Mutant of MapSet: every set adds an entry, also for a key already present.
MapSet_AlwaysAdds(m, source) == Append(m, source)

\* uniqueSourcesMap.set(source.uri, source) on a Map kept as the sequence of
\* its values in insertion order: a key already present keeps its place and
\* gets the new value.
MapSet(m, source) ==
    IF \E k \in 1..Len(m) : m[k].uri = source.uri
    THEN [k \in 1..Len(m) |->
             IF m[k].uri = source.uri THEN source ELSE m[k]]
    ELSE Append(m, source)

RECURSIVE SetAll(_, _)
\* sources.forEach(source => uniqueSourcesMap.set(source.uri, source))
SetAll(m, srcs) ==
    IF srcs = <<>> THEN m
    ELSE SetAll(MapSet(m, Head(srcs)), Tail(srcs))

\* report.sources = Array.from(uniqueSourcesMap.values())
uniqueSources(chunks) == SetAll(<<>>, MappedAndFiltered(chunks))

InitSources ==
    /\ Idle
    /\ input \in SeqsUpTo(Chunks, MaxChunks)
    /\ output = Null

\* generateHealthReport extracts the sources of the response.
ExtractSources ==
    /\ output = Null
    /\ output' = Some(uniqueSources(input))
    /\ UNCHANGED <<appVars, sessionVars, input, localStorage>>

NextSources == ExtractSources

SpecSources == InitSources /\ [][NextSources]_vars

\* The title the first chunk with URI u has after the mapping.
FirstTitle(chunks, u) ==
    LET k == CHOOSE k \in 1..Len(chunks) :
                 /\ chunks[k].uri = u
                 /\ \A j \in 1..(k - 1) : chunks[j].uri # u
    IN  ToSource(chunks[k]).title

\* C12: Source deduplication keeps the first-seen title: the entry kept for a
\* URI carries the title of the first chunk of the list with that URI.
C12_FirstTitleWins ==
    output # Null =>
        \A k \in 1..Len(Val(output)) :
            Val(output)[k].title = FirstTitle(input, Val(output)[k].uri)

\* The non-empty URIs of the chunks.
InputUris(chunks) == {chunks[k].uri : k \in 1..Len(chunks)} \ {""}

\* C13: The sources list has exactly one entry per distinct non-empty URI of
\* the input: no two entries share a URI, no entry has an empty URI, and every
\* non-empty input URI appears (and no other).
C13_OneEntryPerUri ==
    output # Null =>
        LET out == Val(output)
        IN  /\ \A j, k \in 1..Len(out) : out[j].uri = out[k].uri => j = k
            /\ \A k \in 1..Len(out) : out[k].uri # ""
            /\ {out[k].uri : k \in 1..Len(out)} = InputUris(input)

\* C13 witness: three chunks, two of them sharing a URI and one without URI,
\* gave one entry.
C13_Witness ==
    /\ output # Null
    /\ Len(input) = 3
    /\ input[1].uri = "u" /\ input[2].uri = "" /\ input[3].uri = "u"
    /\ input[1].title # input[3].title
    /\ Len(Val(output)) = 1

\* ================================================================ decodePCM
\* Bytes of decoded base64 data, at most.
MaxBytes == 4

\* The byte values tried: the ends of the range and both sides of the sign bit.
ByteValues == {0, 1, 127, 128, 255}

\* Mutant of ToInt16: the two bytes are read as an unsigned value.
ToInt16_Unsigned(lo, hi) == lo + 256 * hi

\* Element of  new Int16Array(bytes.buffer, ...)  over the bytes lo, hi: the
\* signed 16-bit value in the byte order of the host, little-endian.
ToInt16(lo, hi) ==
    IF lo + 256 * hi >= 32768 THEN lo + 256 * hi - 65536 ELSE lo + 256 * hi

\* const effectiveLen = len % 2 !== 0 ? len - 1 : len
effectiveLen(len) == IF len % 2 # 0 THEN len - 1 ELSE len

\* new Int16Array(bytes.buffer, 0, effectiveLen / 2)
int16Data(bytes) ==
    [i \in 1..(effectiveLen(Len(bytes)) \div 2) |->
        ToInt16(bytes[2 * i - 1], bytes[2 * i])]

\* channelData[i] = int16Data[i] / 32768.0, as the fraction num / den.  The
\* quotient is stored in a Float32Array without rounding: |num| <= 2^15 has 16
\* significant bits and den is a power of two.
ToFloat(sample) == [num |-> sample, den |-> 32768]

\* decodePCM after atob: the channel data of the buffer, or Null when
\* ctx.createBuffer throws NotSupportedError because the number of frames is 0.
decodePCM(bytes) ==
    IF Len(int16Data(bytes)) = 0 THEN Null
    ELSE Some([i \in 1..Len(int16Data(bytes)) |-> ToFloat(int16Data(bytes)[i])])

InitDecode ==
    /\ Idle
    /\ input \in SeqsUpTo(ByteValues, MaxBytes)
    /\ output = Null

\* decodePCM is applied to the bytes.
Decode ==
    /\ output = Null
    /\ output' = Some(decodePCM(input))
    /\ UNCHANGED <<appVars, sessionVars, input, localStorage>>

NextDecode == Decode

SpecDecode == InitDecode /\ [][NextDecode]_vars

\* C14: decodePCM never fails on an odd byte count.  For n bytes it yields
\* floor(n/2) samples, and for odd n it neither throws nor differs from the
\* decoding of the first n-1 bytes.
C14_OddLengthDecodes ==
    output # Null =>
        LET n == Len(input)
            decoded == Val(output)
        IN  /\ decoded # Null => Len(Val(decoded)) = n \div 2
            /\ n % 2 = 1 =>
                  /\ decoded # Null
                  /\ decoded = decodePCM(SubSeq(input, 1, n - 1))

\* The sample written back as 16 bits, little-endian: sample * 32768, two's
\* complement, low byte first.
BackToBytes(x) ==
    LET v == (x.num * 32768) \div x.den
        u == IF v < 0 THEN v + 65536 ELSE v
    IN  <<u % 256, u \div 256>>

\* C15: PCM round-trip.  For an even-length byte sequence, sample i is the
\* signed 16-bit little-endian value of bytes 2i and 2i+1 (counted from 0)
\* divided by 32768; every sample lies in [-1, 1]; a sample multiplied back by
\* 32768 is the original integer, whose two bytes are the input's; and the
\* decoding is a function of the bytes alone.
C15_RoundTrip ==
    (output # Null /\ Len(input) % 2 = 0 /\ Val(output) # Null) =>
        LET out == Val(Val(output))
        IN  /\ Len(out) = Len(input) \div 2
            /\ \A i \in 1..Len(out) :
                 LET lo == input[2 * i - 1]
                     hi == input[2 * i]
                     v  == (out[i].num * 32768) \div out[i].den
                 IN  /\ out[i].den = 32768
                     /\ v * out[i].den = out[i].num * 32768
                     /\ v \in -32768..32767
                     /\ (v - (lo + 256 * hi)) % 65536 = 0
                     /\ -out[i].den <= out[i].num /\ out[i].num <= out[i].den
                     /\ BackToBytes(out[i]) = <<lo, hi>>
            /\ Val(output) = decodePCM(input)

\* C15 witness: two samples decoded, the first negative (sign bit set in its
\* high byte), the second positive.
C15_Witness ==
    /\ output # Null /\ Val(output) # Null
    /\ Len(input) = 4
    /\ input[2] = 128 /\ input[4] = 127
    /\ Val(Val(output))[1].num < 0
    /\ Val(Val(output))[2].num > 0

\* C14 for at least two bytes: the decoding succeeds with floor(n/2) samples
\* and, for odd n, equals the decoding of the first n-1 bytes.
C14_DecodesFromTwoBytes ==
    (output # Null /\ Len(input) >= 2) =>
        LET n == Len(input)
            decoded == Val(output)
        IN  /\ decoded # Null
            /\ Len(Val(decoded)) = n \div 2
            /\ n % 2 = 1 => decoded = decodePCM(SubSeq(input, 1, n - 1))

\* ------------------------------------------------------------------- C16
\* The step ends a suspended on-demand fetch without starting a source: the
\* fetch or the decoding of its payload failed.
FetchFailed ==
    /\ Len(conts') = Len(conts) - 1
    /\ \E k \in 1..Len(conts) :
         conts[k].stage = "fetch" /\ conts' = Remove(conts, k)
    /\ Len(sources') = Len(sources)

\* C16: Decode failure keeps the session Idle.  As long as no decoding has
\* succeeded, no buffer is stored, the duration is 0, no source exists and the
\* session is not playing; a stored buffer is always a whole one, with its
\* duration stored; a failed on-demand attempt changes nothing but the loading
\* flag; and every play that starts a source without a stored buffer has
\* decoded again and stores the buffer.
C16_DecodeFailureKeepsIdle ==
    /\ []((mounted /\ audioBuffer = Null) =>
            /\ duration = 0
            /\ sources = <<>> /\ sourceNodeRef = 0
            /\ ~isPlaying)
    /\ [](audioBuffer # Null =>
            /\ Val(audioBuffer).duration = AudioUnits
            /\ duration = AudioUnits)
    /\ [][FetchFailed =>
            /\ UNCHANGED <<audioBuffer, duration, isPlaying, sources,
                           sourceNodeRef, startTimeRef, pausedTimeRef,
                           currentTime, timers>>
            /\ mounted => ~isLoadingAudio']_vars
    /\ [][(mounted /\ audioBuffer = Null /\ Started) =>
            /\ audioBuffer' # Null
            /\ NewSource.offset = 0]_vars

\* C16 witness: the pre-fetched payload is malformed and play was pressed with
\* a running context: nothing was stored or started, and play can be pressed
\* again.
C16_Witness ==
    /\ mounted
    /\ audioContext /\ ctxState = "running"
    /\ conts = <<>>
    /\ preloadedAudioBase64 # Null
    /\ Val(preloadedAudioBase64).payload = "malformed"
    /\ audioBuffer = Null /\ duration = 0
    /\ sources = <<>> /\ ~isPlaying /\ ~isLoadingAudio

\* ------------------------------------------------------------------- C17
\* C17: If the audio context cannot be created or resumed, play() fails
\* gracefully: no rejection escapes handlePlayAudio, and an attempt whose
\* resume failed (the context is still suspended and no call waits for it)
\* leaves no context stored.
C17_ContextFailureIsGraceful ==
    /\ ~unhandledRejection
    /\ (ctxState = "suspended"
          /\ \A k \in 1..Len(conts) : conts[k].stage # "resume") =>
            ~audioContext

\* ------------------------------------------------------------------- C18
\* C18: Teardown releases everything.  The step in which the report view is
\* left stops the active source, if there is one, and closes the audio
\* context, if one was created during the session.
C18_TeardownReleases ==
    [][(mounted /\ ~mounted') =>
          /\ \A k \in 1..Len(sources') : sources'[k].stoppedAt >= 0
          /\ ctxState # "none" => ctxState' = "closed"]_vars

\* ========================================================== cleanJsonString
\* Text is a sequence of characters; "~" stands for a fence marker (three
\* backticks) and "j" for the word json.

RECURSIVE RemoveJsonFences(_)
\* str.replace(/```json/g, '')
RemoveJsonFences(s) ==
    IF Len(s) < 2 THEN s
    ELSE IF s[1] = "~" /\ s[2] = "j" THEN RemoveJsonFences(SubSeq(s, 3, Len(s)))
    ELSE <<s[1]>> \o RemoveJsonFences(Tail(s))

\* .replace(/```/g, '')
RemoveFences(s) == SelectSeq(s, LAMBDA c : c # "~")

RECURSIVE TrimStart(_)
TrimStart(s) ==
    IF s # <<>> /\ Head(s) = " " THEN TrimStart(Tail(s)) ELSE s

RECURSIVE TrimEnd(_)
TrimEnd(s) ==
    IF s # <<>> /\ s[Len(s)] = " " THEN TrimEnd(SubSeq(s, 1, Len(s) - 1))
    ELSE s

\* .trim()
Trim(s) == TrimEnd(TrimStart(s))

\* s.indexOf(c): 0-based, -1 if absent
IndexOf(s, c) ==
    IF \E k \in 1..Len(s) : s[k] = c
    THEN (CHOOSE k \in 1..Len(s) :
             s[k] = c /\ \A j \in 1..(k - 1) : s[j] # c) - 1
    ELSE -1

\* s.lastIndexOf(c): 0-based, -1 if absent
LastIndexOf(s, c) ==
    IF \E k \in 1..Len(s) : s[k] = c
    THEN (CHOOSE k \in 1..Len(s) :
             s[k] = c /\ \A j \in (k + 1)..Len(s) : s[j] # c) - 1
    ELSE -1

\* s.substring(start, end), 0-based: the arguments are swapped if start > end.
Substring(s, start, end) ==
    IF start <= end THEN SubSeq(s, start + 1, end)
    ELSE SubSeq(s, end + 1, start)

\* The character after position k of s, whitespace skipped ("" at the end).
RECURSIVE NextAfterSpace(_, _)
NextAfterSpace(s, k) ==
    IF k >= Len(s) THEN ""
    ELSE IF s[k + 1] = " " THEN NextAfterSpace(s, k + 1)
    ELSE s[k + 1]

\* cleaned.replace(/,(\s*[}\]])/g, '$1')
RemoveTrailingCommas(s) ==
    LET keep == {k \in 1..Len(s) :
                   ~(s[k] = "," /\ NextAfterSpace(s, k) \in {"}", "]"})}
        RECURSIVE Pick(_)
        Pick(k) == IF k > Len(s) THEN <<>>
                   ELSE IF k \in keep THEN <<s[k]>> \o Pick(k + 1)
                   ELSE Pick(k + 1)
    IN  Pick(1)

cleanJsonString(str) ==
    LET cleaned    == Trim(RemoveFences(RemoveJsonFences(str)))
        firstBrace == IndexOf(cleaned, "{")
        lastBrace  == LastIndexOf(cleaned, "}")
        cut        == IF firstBrace # -1 /\ lastBrace # -1
                      THEN Substring(cleaned, firstBrace, lastBrace + 1)
                      ELSE cleaned
    IN  RemoveTrailingCommas(cut)

\* JSON objects a response may carry, as text; "T" marks the places before a
\* closing brace or bracket where the model may have put a trailing comma.
\*   {"a":1}      {"a":[1]}      {"a":",}"}
JsonTemplates ==
    { <<"{", "\"", "a", "\"", ":", "1", "T", "}">>,
      <<"{", "\"", "a", "\"", ":", "[", "1", "T", "]", "T", "}">>,
      <<"{", "\"", "a", "\"", ":", "\"", ",", "}", "\"", "T", "}">> }

\* Prose around the object: none, plain words, words with braces in them.
Proses == { <<>>, <<"p", " ">>, <<"p", "{", "p", "}", " ">> }

RECURSIVE Expand(_, _)
\* The template with every mark replaced by the text comma.
Expand(template, comma) ==
    IF template = <<>> THEN <<>>
    ELSE IF Head(template) = "T" THEN comma \o Expand(Tail(template), comma)
    ELSE <<Head(template)>> \o Expand(Tail(template), comma)

\* The object as strict JSON text: what JSON.parse reads as the object.
Strict(template) == Expand(template, <<>>)

RECURSIVE Significant(_, _)
\* The text without the whitespace outside its string literals, which
\* JSON.parse skips; inString: the text starts inside a string literal.
Significant(text, inString) ==
    IF text = <<>> THEN <<>>
    ELSE IF Head(text) = "\"" THEN <<"\"">> \o Significant(Tail(text), ~inString)
    ELSE IF Head(text) = " " /\ ~inString THEN Significant(Tail(text), inString)
    ELSE <<Head(text)>> \o Significant(Tail(text), inString)

\* JSON.parse reads the text as the object of the template.
ParsesAs(text, template) ==
    Significant(text, FALSE) = Significant(Strict(template), FALSE)

\* The model responses: prose, fence, object with or without trailing commas
\* (tight or followed by a space), fence, prose.
JsonResponses ==
    [ before : Proses,
      open   : {<<>>, <<"~">>, <<"~", "j", " ">>},
      body   : JsonTemplates,
      comma  : {<<>>, <<",">>, <<",", " ">>},
      close  : {<<>>, <<" ", "~">>},
      after  : Proses ]

\* response.text
ResponseText(r) ==
    r.before \o r.open \o Expand(r.body, r.comma) \o r.close \o
    (IF r.after = <<>> THEN <<>> ELSE <<" ">> \o r.after)

InitClean ==
    /\ Idle
    /\ input \in JsonResponses
    /\ output = Null

\* generateHealthReport cleans the text of the response.
CleanResponse ==
    /\ output = Null
    /\ output' = Some(cleanJsonString(ResponseText(input)))
    /\ UNCHANGED <<appVars, sessionVars, input, localStorage>>

NextClean == CleanResponse

SpecClean == InitClean /\ [][NextClean]_vars

\* C19: JSON extraction.  For a response made of optional prose, fence
\* markers and one JSON object with trailing commas before closing braces or
\* brackets, cleanJsonString returns the text of the object without the fence
\* markers and without those commas, which parses as the object.
C19_CleanedParses ==
    output # Null => ParsesAs(Val(output), input.body)

\* The response's prose has no brace and its object no string with a comma
\* before a closing brace.
PlainResponse(r) ==
    /\ "{" \notin {r.before[k] : k \in 1..Len(r.before)}
    /\ "{" \notin {r.after[k] : k \in 1..Len(r.after)}
    /\ \A k \in 1..(Len(r.body) - 1) : ~(r.body[k] = "," /\ r.body[k + 1] = "}")

\* C19 for plain responses: the cleaned text parses as the object.
C19_CleanedPlainParses ==
    (output # Null /\ PlainResponse(input)) =>
        ParsesAs(Val(output), input.body)

\* ===================================================== error classification
\* The text shown for a message of handleFormSubmit's catch: the fixed text of
\* its kind, followed for the generic kind by err.message.
MessageText(msg) ==
    << CASE msg.kind = "connection" ->
              "An issue occurred while analyzing your profile. Please check your connection and try again."
         [] msg.kind = "high traffic" ->
              "The AI servers are currently experiencing high traffic. Please try again in a moment."
         [] msg.kind = "unavailable" ->
              "The AI service is currently unavailable (Model Not Found). Please contact support."
         [] msg.kind = "configuration" ->
              "Service configuration error: Invalid or missing API Key."
         [] msg.kind = "safety" ->
              "The profile data triggered safety filters. Please review your entries and try again."
         [] msg.kind = "malformed" ->
              "A malformed response was received from the AI. Please try again."
         [] msg.kind = "analysis failed" -> "Analysis failed: ",
       msg.detail >>

\* The err.message of a rejection: none (or empty), or a text of which only
\* the needles it contains matter.
ErrorMessages == {Null} \cup {Some(m) : m \in SUBSET Needles}

InitClassify ==
    /\ Idle
    /\ input \in ErrorMessages
    /\ output = Null

\* The catch block of handleFormSubmit computes the message.
Classify ==
    /\ output = Null
    /\ output' = Some(ErrorMessage(input))
    /\ UNCHANGED <<appVars, sessionVars, input, localStorage>>

NextClassify == Classify

SpecClassify == InitClassify /\ [][NextClassify]_vars

\* The kinds in the order of their tests, each with the needles of its test.
KindTests ==
    << [kind |-> "high traffic", needles |-> {"429", "Resource has been exhausted"}],
       [kind |-> "unavailable", needles |-> {"404", "Not Found"}],
       [kind |-> "configuration", needles |-> {"API_KEY", "403"}],
       [kind |-> "safety", needles |-> {"Safety", "blocked"}],
       [kind |-> "malformed", needles |-> {"parse"}] >>

\* The kind of the first test that the message m passes, or the generic kind.
FirstMatch(m) ==
    IF \E k \in 1..Len(KindTests) : KindTests[k].needles \cap m # {}
    THEN KindTests[CHOOSE k \in 1..Len(KindTests) :
                      /\ KindTests[k].needles \cap m # {}
                      /\ \A j \in 1..(k - 1) : KindTests[j].needles \cap m = {}].kind
    ELSE "analysis failed"

\* C20: Error classification.  A rejection with a message gets the kind of
\* the first test, in the order rate-limit, model-unavailable, configuration,
\* content-safety, malformed-response, that its message passes, or else the
\* generic kind with the message as detail; a rejection without message gets
\* the default connection message; and messages of different kinds have
\* different texts.
C20_ErrorClassification ==
    output # Null =>
        /\ input = Null => Val(output).kind = "connection"
        /\ input # Null =>
              /\ Val(output).kind = FirstMatch(Val(input))
              /\ Val(output).kind = "analysis failed" =>
                    Val(output).detail = input
        /\ \A other \in ErrorMessages :
              ErrorMessage(other).kind # Val(output).kind =>
                  MessageText(ErrorMessage(other))[1] # MessageText(Val(output))[1]

\* C20 witness: a message that passes the first and the last test was
\* classified by the first.
C20_Witness ==
    /\ output # Null /\ input # Null
    /\ {"429", "parse"} \subseteq Val(input)
    /\ Val(output).kind = "high traffic"

\* ------------------------------------------------------------------- C21
\* The full-report call of submission s rejected because the cleaned text of
\* the response did not parse.
ParseFailed(s) ==
    s.reportPromise.st = "rejected" /\ s.reportPromise.msg = ParseErrorMessage

\* C21: A full-report response that does not parse after cleaning rejects the
\* call with the parse error; the step in which it does takes the submission's
\* handler from its await into its catch block, which sets the app to ERROR
\* with the malformed-response message and displays no draft; the submission
\* never joins and no draft of it is ever stored.
C21_ParseFailureIsMalformed ==
    /\ [](\A i \in Submissions :
            ParseFailed(subs[i]) => subs[i].phase = "failed" /\ ~DraftOf(i))
    /\ [][\A i \in Submissions :
            (~ParseFailed(subs[i]) /\ ParseFailed(subs'[i])) =>
                /\ subs[i].phase = "awaiting" /\ subs'[i].phase = "failed"
                /\ appState' = "ERROR"
                /\ error' = Some([kind |-> "malformed", detail |-> Null])
                /\ ~DashboardShown(appState', report')]_vars

\* The response of a submission did not parse while its fast summary had
\* already resolved: the app shows the malformed-response message, no draft.
C21_Witness ==
    \E i \in Submissions :
        /\ ParseFailed(subs[i])
        /\ subs[i].summaryPromise.st = "ok"
        /\ appState = "ERROR"
        /\ error = Some([kind |-> "malformed", detail |-> Null])
        /\ report = Null

\* ------------------------------------------------------------------- C22
\* The step runs the setTimeout callback t (only a callback that runs leaves
\* the set of timers).
Fires(t) == t \in timers /\ timers' = timers \ {t}

\* C22: A stale auto-stop timer is superseded.  When the timer armed for a
\* source runs after playBuffer has started a newer source, which the session
\* now references, it changes neither isPlaying, nor the stored offset, nor
\* the displayed time.
C22_StaleTimerSuperseded ==
    [][\A t \in timers :
         (Fires(t) /\ sourceNodeRef > t.source) =>
            UNCHANGED <<isPlaying, pausedTimeRef, currentTime, sourceNodeRef,
                        sources>>]_vars

\* The timer of the first source has run while the second source, started
\* before that timer was due, was playing: the session still plays, at the
\* offset it resumed from.
C22_Witness ==
    /\ mounted
    /\ Len(sources) = 2
    /\ sources[2].startedAt < DueAt(1)
    /\ \A t \in timers : t.source = 2
    /\ timers # {}
    /\ now >= DueAt(1) /\ now < DueAt(2)
    /\ Active(2) /\ sourceNodeRef = 2
    /\ isPlaying
    /\ currentTime > 0

\* ------------------------------------------------------------------- C23
\* C23: The progress signal is frozen while Stopped.  A step taken while the
\* session is not playing changes neither the displayed time nor the stored
\* offset (a press of play itself leaves both as they are: playBuffer moves
\* the start reference); a step that leaves the session playing and changes
\* the displayed time is an animation frame and sets it to
\* min(clock - start reference, duration).
C23_ProgressFrozenWhileStopped ==
    /\ [][~isPlaying => UNCHANGED <<currentTime, pausedTimeRef>>]_vars
    /\ [][(isPlaying /\ isPlaying' /\ currentTime' # currentTime) =>
            currentTime' = Min(now - startTimeRef, duration)]_vars

\* C23 but for the callbacks of timers: while the session is not playing, no
\* animation frame, completion of a fetch or of a resume, press of play or
\* unmount changes the displayed time or the stored offset.
C23_FrozenButForTimers ==
    /\ [][(~isPlaying /\ \A t \in timers : ~Fires(t)) =>
            UNCHANGED <<currentTime, pausedTimeRef>>]_vars
    /\ [][(isPlaying /\ isPlaying' /\ currentTime' # currentTime) =>
            currentTime' = Min(now - startTimeRef, duration)]_vars

\* ------------------------------------------------------------------- C24
\* The step settles the image call of submission i with image data, after the
\* handler of i has passed its join.
LateImage(i) ==
    /\ subs[i].phase = "joined"
    /\ subs[i].visualPromise.st = "pending"
    /\ subs'[i].visualPromise.st = "ok"
    /\ subs'[i].visualPromise.val # Null

\* The step settles the narration call of submission i with audio data, after
\* the handler of i has passed its join.
LateNarration(i) ==
    /\ subs[i].phase = "joined"
    /\ subs[i].audioPromise.st = "pending"
    /\ subs'[i].audioPromise.st = "ok"

\* The step starts no generation call and resumes no handler: no submission
\* is added, no pre-fetch is started, and the records of the submissions
\* change in nothing but the promise p of submission i.
NothingReissued(i, p) ==
    /\ Len(subs') = Len(subs)
    /\ prefetches' = prefetches
    /\ preloadedAudioBase64' = preloadedAudioBase64
    /\ \A j \in Submissions : \A f \in DOMAIN subs[j] :
          (j # i \/ f # p) => subs'[j][f] = subs[j][f]

\* C24: Side-channel merges only add their own field.  An image that arrives
\* after its submission's join sets the image field of the stored draft (if
\* there is one) and changes no other field of it, nor the app state, the
\* error, the profile or the attached audio; a narration that arrives after
\* the join sets the attached audio and nothing else; neither starts a call
\* or resumes a handler.
C24_SideChannelFrame ==
    [][\A i \in Submissions :
         /\ LateImage(i) =>
              /\ report' = IF report = Null THEN Null
                           ELSE Some([Val(report) EXCEPT !.visualBase64 =
                                         subs'[i].visualPromise.val])
              /\ UNCHANGED <<appState, error, userProfile, reportAudio>>
              /\ NothingReissued(i, "visualPromise")
         /\ LateNarration(i) =>
              /\ reportAudio' = subs'[i].audioPromise.val
              /\ UNCHANGED <<appState, error, userProfile, report>>
              /\ NothingReissued(i, "audioPromise")]_vars

\* An image arrived after the draft now displayed was stored (the draft is
\* that of the second submission and the image that of the first, whose
\* handler had joined: only the late callback can have attached it); the
\* draft still has the summary and the fields its join gave it.
C24_Witness ==
    /\ Len(subs) = 2
    /\ subs[1].phase = "joined" /\ subs[2].phase = "joined"
    /\ appState = "REPORT" /\ DraftOf(2)
    /\ Val(report).visualBase64 = Some([sub |-> 1])
    /\ Val(report).summary = Val(subs[2].summaryPromise.val)
    /\ Val(report).summary # OwnSummary
    /\ Val(report).fields = Val(subs[2].reportPromise.val).fields
    /\ error = Null

\* ------------------------------------------------------------------- C25
\* The error screen of App: the "Retry Analysis" button (onClick=handleRetry)
\* is rendered whenever appState is ERROR, whatever the message.
RetryOffered == appState = "ERROR"

\* One message of a rejected full-report call for each branch of the catch
\* block: none, one needle of each of the five tests, and no needle at all.
RejectionMessages ==
    {Null, Some({"429"}), Some({"404"}), Some({"API_KEY"}), Some({"Safety"}),
     Some({"parse"}), Some({})}

\* The app on its error screen: the full-report call of a first submission
\* has rejected with one of the messages while its other calls were pending;
\* the user had stayed on the loading screen, or had left it with the logo
\* (handleReset) before the rejection.
InitRetry ==
    \E data \in Profiles, message \in RejectionMessages, left \in BOOLEAN :
        /\ appState = "ERROR"
        /\ userProfile = (IF left THEN INITIAL_USER_PROFILE ELSE data)
        /\ report = Null
        /\ reportAudio = Null
        /\ error = Some(ErrorMessage(message))
        /\ subs = << [NewSubmission(data) EXCEPT
                        !.reportPromise = [st |-> "rejected", val |-> Null,
                                           msg |-> message],
                        !.phase = "failed"] >>
        /\ preloadedAudioBase64 = Null
        /\ prefetches = {}
        /\ SessionInit
        /\ input = Null
        /\ output = Null
        /\ localStorage = Null

SpecRetry == InitRetry /\ [][Next]_vars

\* The step is a click on "Retry Analysis" that submits again.
Resubmits == appState = "ERROR" /\ Len(subs') = Len(subs) + 1

\* C25: From the ERROR state, retry resubmits the identical profile that was
\* last submitted, without going through the form, for every error kind but
\* the configuration failure, for which retry is not offered.
C25_RetryExceptConfiguration ==
    /\ [](appState = "ERROR" =>
            (RetryOffered <=> Val(error).kind # "configuration"))
    /\ [][Resubmits =>
            /\ Val(error).kind # "configuration"
            /\ subs'[Len(subs')].profile = subs[Len(subs)].profile
            /\ appState' = "LOADING"]_vars

\* What handleRetry does: it submits the profile in App's state, which is the
\* one last submitted unless a reset came in between, for every error kind.
C25_RetrySubmitsStoredProfile ==
    [][Resubmits =>
         /\ userProfile.age # ""
         /\ subs'[Len(subs')] = NewSubmission(userProfile)
         /\ userProfile' = userProfile
         /\ userProfile = subs[Len(subs)].profile
         /\ appState' = "LOADING" /\ error' = Null]_vars

\* ======================================================= storageService
\* saveReportToHistory keeps the first 10 entries: .slice(0, 10)
HistoryCap == 10

\* Calls of saveReportToHistory in one run.
MaxSaves == 12

\* The properties of a stored report that matter here: id stands for the
\* generated content (bmi ... nutritionalAdvice); Null is undefined.
ReportKeys == {"id", "date", "visualBase64"}

\* The n-th report handed to saveReportToHistory: every second one carries
\* its date already, none has an image yet.
SavedReport(n) ==
    [id |-> Some(n),
     date |-> IF n % 2 = 0 THEN Some("stamped") ELSE Null,
     visualBase64 |-> Null]

\* { ...report, date: report.date || new Date().toISOString() }
reportWithDate(r) ==
    [r EXCEPT !.date = IF r.date # Null THEN r.date ELSE Some("now")]

\* JSON.stringify of an array of reports: for each report the set of its
\* "key": value members; a property that is undefined is left out.
Stringify(history) ==
    [k \in 1..Len(history) |->
        {<<key, Val(history[k][key])>> :
            key \in {x \in ReportKeys : history[k][x] # Null}}]

\* JSON.parse of such a text: a property without member reads as undefined.
Parse(text) ==
    [k \in 1..Len(text) |->
        [key \in ReportKeys |->
            IF \E m \in text[k] : m[1] = key
            THEN Some((CHOOSE m \in text[k] : m[1] = key)[2])
            ELSE Null]]

\* array.slice(0, n)
Slice(seq, n) == SubSeq(seq, 1, Min(n, Len(seq)))

\* getHistory: stored ? JSON.parse(stored) : []; the catch returns [] when
\* localStorage.getItem throws.
getHistory(readFails) ==
    IF readFails \/ localStorage = Null THEN <<>>
    ELSE Parse(Val(localStorage))

\* getLatestReport: history.length > 0 ? history[0] : null
getLatestReport(readFails) ==
    LET history == getHistory(readFails)
    IN  IF Len(history) > 0 THEN Some(history[1]) ELSE Null

\* Mutant of UpdatedHistory: the new report is appended at the end.
UpdatedHistory_Appends(newReport, history) ==
    Slice(history \o <<reportWithDate(newReport)>>, HistoryCap)

\* [reportWithDate, ...history].slice(0, 10)
UpdatedHistory(newReport, history) ==
    Slice(<<reportWithDate(newReport)>> \o history, HistoryCap)

\* The calls of saveReportToHistory made so far.
Saves == IF input = Null THEN 0 ELSE Val(input).saves

\* A call of saveReportToHistory(report); localStorage.getItem may throw
\* (caught in getHistory) and localStorage.setItem may throw (caught here).
saveReportToHistory ==
    /\ Saves < MaxSaves
    /\ \E readFails, writeFails \in BOOLEAN :
         LET newReport == SavedReport(Saves + 1)
             updatedHistory == UpdatedHistory(newReport, getHistory(readFails))
         IN  /\ localStorage' = IF writeFails THEN localStorage
                                ELSE Some(Stringify(updatedHistory))
             /\ input' = Some([op |-> "saveReportToHistory",
                               saves |-> Saves + 1, report |-> Some(newReport),
                               readFails |-> readFails,
                               writeFails |-> writeFails])
             /\ output' = Some([returned |-> Null])
    /\ UNCHANGED <<appVars, sessionVars>>

\* A call of getHistory().
GetHistory ==
    /\ \E readFails \in BOOLEAN :
         /\ input' = Some([op |-> "getHistory", saves |-> Saves,
                           report |-> Null, readFails |-> readFails,
                           writeFails |-> FALSE])
         /\ output' = Some([returned |-> Some(getHistory(readFails))])
    /\ UNCHANGED <<appVars, sessionVars, localStorage>>

\* A call of getLatestReport(), as in App's effect on mount.
GetLatestReport ==
    /\ \E readFails \in BOOLEAN :
         /\ input' = Some([op |-> "getLatestReport", saves |-> Saves,
                           report |-> Null, readFails |-> readFails,
                           writeFails |-> FALSE])
         /\ output' = Some([returned |-> Some(getLatestReport(readFails))])
    /\ UNCHANGED <<appVars, sessionVars, localStorage>>

\* clearHistory: localStorage.removeItem(STORAGE_KEY)
clearHistory ==
    /\ localStorage # Null
    /\ localStorage' = Null
    /\ input' = Some([op |-> "clearHistory", saves |-> Saves,
                      report |-> Null, readFails |-> FALSE,
                      writeFails |-> FALSE])
    /\ output' = Some([returned |-> Null])
    /\ UNCHANGED <<appVars, sessionVars>>

\* Nothing is stored under the key when the application is first opened.
InitHistory ==
    /\ Idle
    /\ input = Null
    /\ output = Null

NextHistory ==
    \/ saveReportToHistory
    \/ GetHistory
    \/ GetLatestReport
    \/ clearHistory

SpecHistory == InitHistory /\ [][NextHistory]_vars

\* ------------------------------------------------------------------- C26
\* The history as a reader without failure finds it.
Stored == getHistory(FALSE)

\* The last call was op; its record.
LastCall(op) == input # Null /\ Val(input).op = op

\* The step is a call of saveReportToHistory.
SaveStep == input' # Null /\ Val(input').saves = Saves + 1

\* C26: Report history is capped and most-recent-first.  The stored history
\* never has more than 10 entries, later saved reports come before earlier
\* ones and every entry is dated; a save that succeeds puts its report, dated,
\* at the head, where getLatestReport finds it, and keeps the 9 most recent
\* of 10 entries; getLatestReport returns the head of the history, or null if
\* it is empty; a failing read makes getHistory return the empty list and
\* getLatestReport null, a failing write leaves the stored history as it was,
\* and no call throws.
C26_HistoryCapped ==
    /\ [](/\ Len(Stored) <= 10
          /\ \A j, k \in 1..Len(Stored) :
                j < k => Val(Stored[j].id) > Val(Stored[k].id)
          /\ \A k \in 1..Len(Stored) : Stored[k].date # Null)
    /\ [][SaveStep =>
            LET call == Val(input')
                saved == reportWithDate(Val(call.report))
            IN  /\ output' = Some([returned |-> Null])
                /\ call.writeFails => localStorage' = localStorage
                /\ ~call.writeFails =>
                      /\ getLatestReport(FALSE)' = Some(saved)
                      /\ Val(saved.id) = Saves + 1
                /\ (~call.writeFails /\ ~call.readFails) =>
                      /\ Len(Stored) < 10 => Stored' = <<saved>> \o Stored
                      /\ Len(Stored) = 10 =>
                            Stored' = <<saved>> \o SubSeq(Stored, 1, 9)]_vars
    /\ [](LastCall("getLatestReport") =>
            Val(output).returned =
                Some(IF Val(input).readFails \/ Len(Stored) = 0 THEN Null
                     ELSE Some(Stored[1])))
    /\ [](LastCall("getHistory") =>
            Val(output).returned =
                Some(IF Val(input).readFails THEN <<>> ELSE Stored))

\* Twelve reports were saved without failure: the history holds the ten most
\* recent, the twelfth first and the third last, and getLatestReport has
\* returned the twelfth with the date it came with.
C26_Witness ==
    /\ Saves = 12
    /\ Len(Stored) = 10
    /\ \A k \in 1..10 : Stored[k].id = Some(13 - k)
    /\ LastCall("getLatestReport")
    /\ Val(output).returned = Some(Some(reportWithDate(SavedReport(12))))
    /\ Stored[2].date = Some("now")

\* ------------------------------------------------------------------- C27
\* C27: No playback starts after teardown.  Once the dashboard is unmounted,
\* no step creates and starts a buffer source and none sets the session to
\* playing.
C27_NoPlaybackAfterTeardown ==
    [][~mounted => (~Started /\ (isPlaying' => isPlaying))]_vars

\* C27 for the session's state alone: after the unmount no step changes what
\* the dashboard displayed (the setters of an unmounted component do nothing).
C27_StateFrozenAfterTeardown ==
    [][~mounted =>
         UNCHANGED <<isPlaying, isLoadingAudio, audioBuffer, currentTime,
                     duration>>]_vars

\* ------------------------------------------------------------------- C28
\* C28: In every reachable state of a playback session the displayed time is
\* within the audio: 0 <= currentTime <= duration.
C28_TimeWithinDuration == 0 <= currentTime /\ currentTime <= duration

\* C28 but for the pause branch: the displayed time is never negative, and
\* when it exceeds the duration it is the position a pause has stored (until
\* the next animation frame or the timer).
C28_TimeWithinDurationUnlessPaused ==
    /\ 0 <= currentTime
    /\ (mounted /\ currentTime > duration) => currentTime = pausedTimeRef

\* ------------------------------------------------------------------- C29
\* C29: An illustration only ever attaches to its own submission's draft: the
\* image of the stored draft, if it has one, comes from the image call of the
\* submission that produced the draft.
C29_OwnIllustration ==
    (report # Null /\ Val(report).visualBase64 # Null) =>
        Val(Val(report).visualBase64).sub = Val(report).sub

\* C29 for as long as a single submission has got past its join: the image
\* of the stored draft is that submission's.
C29_OwnIllustrationSingleJoin ==
    (/\ report # Null /\ Val(report).visualBase64 # Null
     /\ Cardinality({i \in Submissions : subs[i].phase = "joined"}) <= 1) =>
        Val(Val(report).visualBase64).sub = Val(report).sub

\* ============================================== the fields of the report
\* The members the prompt of generateHealthReport asks for, apart from the
\* summary, which handleFormSubmit sets itself.
RequiredFields ==
    {"bmi", "bmiCategory", "overallHealthScore", "potentialRisks",
     "keyStrengths", "dailyRoutine", "nutritionalAdvice"}

\* response.text of the full-report call: Null (undefined or the empty
\* string), or a text that parses or not after cleaning and, if it parses, is
\* an object with some of the members.
ReportTexts ==
    {Null} \cup
    {Some([parses |-> p, keys |-> K]) :
        p \in BOOLEAN, K \in SUBSET RequiredFields}

\* const text = response.text || "{}"
TextOrEmptyObject(text) ==
    IF text = Null THEN [parses |-> TRUE, keys |-> {}] ELSE Val(text)

\* generateHealthReport from the response text on: Null when JSON.parse
\* throws (the call rejects), else the members of the object it returns.
ReportMembers(text) ==
    LET t == TextOrEmptyObject(text)
    IN  IF ~t.parses THEN Null
        ELSE Some(t.keys \cup {"sources", "date"})

\* handleFormSubmit after the join: what App shows for the response text, the
\* fast summary having resolved.
ShownFor(text) ==
    LET members == ReportMembers(text)
    IN  IF members = Null
        THEN [appState |-> "ERROR", draft |-> Null]
        ELSE [appState |-> "REPORT",
              draft |-> Some(Val(members) \cup {"summary"})]

\* calculateMetrics(report) reads the length of three lists: it is defined
\* (does not throw) when they are present.
MetricsDefined(draft) ==
    {"potentialRisks", "keyStrengths", "dailyRoutine"} \subseteq draft

InitReport ==
    /\ Idle
    /\ input \in ReportTexts
    /\ output = Null

\* The submission whose full-report response has the text runs to its end.
ShowReport ==
    /\ output = Null
    /\ output' = Some(ShownFor(input))
    /\ UNCHANGED <<appVars, sessionVars, input, localStorage>>

NextReport == ShowReport

SpecReport == InitReport /\ [][NextReport]_vars

\* ------------------------------------------------------------------- C30
\* C30: Every draft that reaches the REPORT state has all required report
\* fields, so that the dashboard's metric computation is defined; an empty
\* response, or one that parses to an object lacking fields, yields no
\* displayed draft.
C30_RequiredFieldsPresent ==
    (output # Null /\ Val(output).appState = "REPORT") =>
        /\ RequiredFields \subseteq Val(Val(output).draft)
        /\ MetricsDefined(Val(Val(output).draft))

\* What the code guarantees: a report is shown exactly when the response text
\* is empty or parses; the draft then has the summary, the sources and the
\* date, and of the required fields those the response had.
C30_ShownWheneverParsed ==
    output # Null =>
        LET shown == Val(output)
        IN  /\ shown.appState = "REPORT" <=> (input = Null \/ Val(input).parses)
            /\ shown.appState = "REPORT" =>
                  /\ {"summary", "sources", "date"} \subseteq Val(shown.draft)
                  /\ Val(shown.draft) \cap RequiredFields =
                        (IF input = Null THEN {} ELSE Val(input).keys)
            /\ shown.appState = "ERROR" => shown.draft = Null

====
